---- MODULE Spec2Model ----
(***************************************************************************)
(* Personalized feed handler of endless296/GetPosts.                       *)
(*                                                                         *)
(* The repository holds two variants of the same handler:                  *)
(*   "index"   : src/src/index.js      (@planetscale/database)             *)
(*   "part000" : src/unnamed/part_000  (mysql2, fetchers wrapped in        *)
(*                                      try/catch)                         *)
(* One request to handlePersonalizedFeed is modelled as a state machine;   *)
(* the database tables are chosen in Init and every db.execute may either  *)
(* answer or throw.                                                        *)
(***************************************************************************)
EXTENDS Integers, Sequences, FiniteSets, TLC

\* ---------------------------------------------------------------- bounds
NumPosts == 3       \* rows of the posts table
MaxFaults == 2      \* db.execute calls that throw during one request, at most

PostIds == 1 .. NumPosts

Variants == {"index", "part000"}

\* SQL NULL / a JS falsy string
NULL == ""

\* messages a failing db.execute may carry
ErrorMessages == {"ETIMEDOUT", "ER_LOCK_DEADLOCK"}

\* ------------------------------------------------------------ the tables
\* users(username, city, region, country)
users ==
  [ ann |-> [username |-> "ann", city |-> "X",  region |-> "R",  country |-> "C"],
    bob |-> [username |-> "bob", city |-> "X",  region |-> "R",  country |-> "C"],
    cat |-> [username |-> "cat", city |-> NULL, region |-> "R",  country |-> "C"],
    dan |-> [username |-> "dan", city |-> NULL, region |-> NULL, country |-> NULL] ]

Usernames == DOMAIN users


\* what the post_views query may answer for the user
ViewedSets == { {}, {1} }

\* what Math.random() may return: 0, or a value just below 1
RandomValues == {"0", "1-"}

\* the limit query parameter (page_size)
Limits == {2, 10}

\* rows a post may be; age is NOW() - timestamp in days, likedBy is the
\* column's text: a JSON array, or text JSON.parse rejects
PostKinds ==
  << [username |-> "bob", age |-> 1, likes |-> 2, hearts |-> 0, comments |-> 0,
      likedBy |-> "[]"],
     [username |-> "bob", age |-> 9, likes |-> 0, hearts |-> 1, comments |-> 3,
      likedBy |-> "[]"],
     [username |-> "cat", age |-> 4, likes |-> 1, hearts |-> 1, comments |-> 0,
      likedBy |-> "[]"],
     [username |-> "cat", age |-> 6, likes |-> 3, hearts |-> 0, comments |-> 1,
      likedBy |-> "[]"],
     [username |-> "dan", age |-> 6, likes |-> 0, hearts |-> 0, comments |-> 0,
      likedBy |-> "[ann"] >>

\* posts tables: post ids are opaque, so only tables whose kinds are
\* non-decreasing in the id are enumerated
PostsTables ==
  { [i \in PostIds |-> PostKinds[k[i]]] :
      k \in { f \in [PostIds -> 1 .. Len(PostKinds)] :
                \A i, j \in PostIds : i < j => f[i] <= f[j] } }

\* follows(follower, following, relationship_status)
Edge(a, b, s) == [follower |-> a, following |-> b, relationship_status |-> s]

FollowsTables ==
  << {},
     { Edge("ann", "bob", "accepted"), Edge("bob", "ann", "accepted") },
     { Edge("ann", "cat", "none"), Edge("bob", "ann", "pending"),
       Edge("dan", "bob", "none") },
     { Edge("cat", "ann", "accepted"), Edge("ann", "bob", "none"),
       Edge("dan", "cat", "accepted") } >>

\* the requests: the userId query parameter with the follows table it meets;
\* "zed" is not in users, "dan" has no location
Requests ==
  { [userId |-> "zed", follows |-> FollowsTables[2]],
    [userId |-> "dan", follows |-> FollowsTables[1]],
    [userId |-> "dan", follows |-> FollowsTables[4]],
    [userId |-> "ann", follows |-> FollowsTables[1]],
    [userId |-> "ann", follows |-> FollowsTables[2]],
    [userId |-> "ann", follows |-> FollowsTables[3]],
    [userId |-> "ann", follows |-> FollowsTables[4]] }

\* -------------------------------------------------------------- helpers
Min(a, b) == IF a < b THEN a ELSE b

Range(s) == { s[k] : k \in 1 .. Len(s) }

\* Array.prototype.slice(0, n)
Slice(s, n) == SubSeq(s, 1, Min(n, Len(s)))

RECURSIVE SetToSeq(_)
SetToSeq(S) ==
  IF S = {} THEN << >>
  ELSE LET x == CHOOSE y \in S : \A z \in S : y <= z
       IN << x >> \o SetToSeq(S \ {x})

RECURSIVE EdgesToSeq(_)
EdgesToSeq(S) ==
  IF S = {} THEN << >>
  ELSE LET x == CHOOSE y \in S : TRUE
       IN << x >> \o EdgesToSeq(S \ {x})

InjSeqs(S, m) ==
  { s \in [1 .. m -> S] : \A a, b \in 1 .. m : a /= b => s[a] /= s[b] }

VARIABLES
  variant,        \* which of the two handler files runs
  posts,          \* posts table: id -> row
  follows,        \* follows table: set of edges
  userId,         \* request parameter
  limit,          \* request parameter
  pc,             \* position in handlePersonalizedFeed / generateFeedComposition
  userData,       \* result of getUserDataAndRelationships
  recentlyViewed, \* result of getRecentlyViewedPosts
  feed,           \* `posts` array of generateFeedComposition, then feedPosts
  calls,          \* fetcher invocations made by the composer
  queries,        \* db.execute calls issued so far
  thrown,         \* the functions that threw an error to their caller
  response        \* the Response returned

vars == << variant, posts, follows, userId, limit, pc, userData,
           recentlyViewed, feed, calls, queries, thrown, response >>

\* ------------------------------------------------------------- db.execute
\* A logged db.execute call: which query, the ids it excludes, its LIMIT,
\* and whether it answered
Query(name, excl, n, ok) == [q |-> name, excl |-> excl, limit |-> n, ok |-> ok]

\* db.execute answers with one of the row lists the SQL allows, or throws
Execute(rowsSet) ==
  { [ok |-> TRUE, rows |-> r, message |-> ""] : r \in rowsSet } \cup
  { [ok |-> FALSE, rows |-> << >>, message |-> m] : m \in ErrorMessages }

\* what a function returns (ok) or throws (~ok), with the queries it issued
Ok(v, log) == [ok |-> TRUE, value |-> v, message |-> "", log |-> log]
Throw(m, log) == [ok |-> FALSE, value |-> << >>, message |-> m, log |-> log]
After(log, outcomes) == { [o EXCEPT !.log = log \o @] : o \in outcomes }

\* the db.execute calls of a log that threw
Faults(log) == Cardinality({ k \in 1 .. Len(log) : ~ log[k].ok })

\* rows.map(post => ({ ...post, feedType }))
Tag(rows, t) == [k \in 1 .. Len(rows) |-> [_id |-> rows[k], feedType |-> t]]

\* posts.map(p => p._id)
Ids(cands) == { cands[k]._id : k \in 1 .. Len(cands) }

\* ORDER BY RAND() LIMIT n: any min(n, |pool|) rows of pool (listed by id:
\* the composer reshuffles them)
RandRows(pool, n) ==
  { SetToSeq(S) : S \in { T \in SUBSET pool :
                           Cardinality(T) = Min(n, Cardinality(pool)) } }

\* ORDER BY p.timestamp DESC
NewestFirst(a, b) == posts[a].age < posts[b].age

\* ORDER BY (p.likes + p.hearts + CHAR_LENGTH(p.comments)) DESC, p.timestamp DESC
FriendsOrder(a, b) ==
  LET sa == posts[a].likes + posts[a].hearts + posts[a].comments
      sb == posts[b].likes + posts[b].hearts + posts[b].comments
  IN sa > sb \/ (sa = sb /\ posts[a].age < posts[b].age)

\* ORDER BY (p.likes + p.hearts) DESC, p.timestamp DESC
RegionalOrder(a, b) ==
  LET sa == posts[a].likes + posts[a].hearts
      sb == posts[b].likes + posts[b].hearts
  IN sa > sb \/ (sa = sb /\ posts[a].age < posts[b].age)

\* the ORDER BY clause of the named query: does row a come before row b
Before(order, a, b) ==
  CASE order = "following" -> NewestFirst(a, b)
    [] order = "friends" -> FriendsOrder(a, b)
    [] OTHER -> RegionalOrder(a, b)

\* ORDER BY <order> LIMIT n over the rows of pool: the list of
\* min(n, |pool|) distinct rows that is sorted and leaves no earlier row out;
\* rows that tie come in primary-key order
TopRows(pool, n, order) ==
  LET m == Min(n, Cardinality(pool))
      First(a, b) == Before(order, a, b) \/ (~ Before(order, b, a) /\ a < b)
  IN { s \in InjSeqs(pool, m) :
         /\ \A a, b \in 1 .. m : a < b => First(s[a], s[b])
         /\ \A x \in pool \ Range(s) : \A k \in 1 .. m : First(s[k], x) }

\* RandomPool without its "AND p._id NOT IN (...)" filter
RandomPool_unfiltered(rv) == { i \in PostIds : posts[i].age < 7 }

\* WHERE p.timestamp > DATE_SUB(NOW(), INTERVAL 7 DAY) AND p._id NOT IN (viewed)
RandomPool(rv) == { i \in PostIds : posts[i].age < 7 /\ i \notin rv }

\* WHERE p.username IN (names) AND p._id NOT IN (viewed)
AuthorPool(names, rv) ==
  { i \in PostIds : posts[i].username \in Range(names) /\ i \notin rv }

\* JOIN users u ON p.username = u.username WHERE u.<field> = ? AND
\* p.username != ? AND p._id NOT IN (viewed) AND p._id NOT IN (chosen)
\* AND p.timestamp > DATE_SUB(NOW(), INTERVAL <days> DAY)
TierPool(field, ud, rv, chosen, days) ==
  { i \in PostIds :
      /\ posts[i].username \in Usernames
      /\ users[posts[i].username][field] = ud[field]
      /\ posts[i].username /= ud.username
      /\ i \notin rv
      /\ i \notin chosen
      /\ posts[i].age < days }


\* ---------------------------------------------------------------- fetchers
\* Each fetcher yields the set of its possible outcomes: a list of
\* candidates it returns, or an error it throws to its caller.

\* target composition for 10 posts
composition == [random |-> 4, following |-> 3, friends |-> 2, regional |-> 1]

\* src/src/index.js: the query's error propagates
getRandomPosts_index(rv, count) ==
  IF count <= 0 THEN { Ok(<< >>, << >>) }
  ELSE { IF r.ok
           THEN Ok(Tag(r.rows, "random"), << Query("random", rv, count, TRUE) >>)
           ELSE Throw(r.message, << Query("random", rv, count, FALSE) >>)
         : r \in Execute(RandRows(RandomPool(rv), count)) }

\* src/unnamed/part_000: catch (error) { return [] }
getRandomPosts_part000(rv, count) ==
  IF count <= 0 THEN { Ok(<< >>, << >>) }
  ELSE { IF r.ok
           THEN Ok(Tag(r.rows, "random"), << Query("random", rv, count, TRUE) >>)
           ELSE Ok(<< >>, << Query("random", rv, count, FALSE) >>)
         : r \in Execute(RandRows(RandomPool(rv), count)) }

getRandomPosts(v, rv, count) ==
  IF v = "index" THEN getRandomPosts_index(rv, count)
  ELSE getRandomPosts_part000(rv, count)

getFollowingPosts_index(ud, rv, count) ==
  IF count <= 0 \/ Len(ud.following) = 0
    THEN getRandomPosts_index(rv, count)
  ELSE { IF r.ok
           THEN Ok(Tag(r.rows, "following"), << Query("following", rv, count, TRUE) >>)
           ELSE Throw(r.message, << Query("following", rv, count, FALSE) >>)
         : r \in Execute(TopRows(AuthorPool(ud.following, rv), count, "following")) }

\* catch (error) { return await getRandomPosts(db, userData, recentlyViewed, count) }
getFollowingPosts_part000(ud, rv, count) ==
  IF count <= 0 \/ Len(ud.following) = 0
    THEN getRandomPosts_part000(rv, count)
  ELSE UNION
       { IF r.ok
           THEN { Ok(Tag(r.rows, "following"), << Query("following", rv, count, TRUE) >>) }
           ELSE After(<< Query("following", rv, count, FALSE) >>,
                      getRandomPosts_part000(rv, count))
         : r \in Execute(TopRows(AuthorPool(ud.following, rv), count, "following")) }

\* getFollowingPosts giving its own tag to the discovery posts it delegates to
getFollowingPosts_retagged(v, ud, rv, count) ==
  { IF o.ok
      THEN [o EXCEPT !.value = Tag([k \in 1 .. Len(o.value) |-> o.value[k]._id],
                                   "following")]
      ELSE o
    : o \in (IF v = "index" THEN getFollowingPosts_index(ud, rv, count)
             ELSE getFollowingPosts_part000(ud, rv, count)) }

getFollowingPosts(v, ud, rv, count) ==
  IF v = "index" THEN getFollowingPosts_index(ud, rv, count)
  ELSE getFollowingPosts_part000(ud, rv, count)

getFriendsPosts_index(ud, rv, count) ==
  IF count <= 0 \/ Len(ud.friends) = 0
    THEN getRandomPosts_index(rv, count)
  ELSE { IF r.ok
           THEN Ok(Tag(r.rows, "friends"), << Query("friends", rv, count, TRUE) >>)
           ELSE Throw(r.message, << Query("friends", rv, count, FALSE) >>)
         : r \in Execute(TopRows(AuthorPool(ud.friends, rv), count, "friends")) }

getFriendsPosts_part000(ud, rv, count) ==
  IF count <= 0 \/ Len(ud.friends) = 0
    THEN getRandomPosts_part000(rv, count)
  ELSE UNION
       { IF r.ok
           THEN { Ok(Tag(r.rows, "friends"), << Query("friends", rv, count, TRUE) >>) }
           ELSE After(<< Query("friends", rv, count, FALSE) >>,
                      getRandomPosts_part000(rv, count))
         : r \in Execute(TopRows(AuthorPool(ud.friends, rv), count, "friends")) }

getFriendsPosts(v, ud, rv, count) ==
  IF v = "index" THEN getFriendsPosts_index(ud, rv, count)
  ELSE getFriendsPosts_part000(ud, rv, count)

\* --- getRegionalPosts, last step first

\* "Fill with random if still not enough", then return posts.slice(0, count)
RegionalFill(v, rv, count, chosen) ==
  IF Len(chosen) < count
    THEN { IF o.ok
             THEN Ok(Slice(chosen \o Tag([k \in 1 .. Len(o.value) |-> o.value[k]._id],
                                         "regional-fallback"), count), o.log)
             ELSE o
           : o \in getRandomPosts(v, rv \cup Ids(chosen), count - Len(chosen)) }
  ELSE { Ok(Slice(chosen, count), << >>) }

\* a tier queried whether or not the earlier tiers filled the count
RegionalTier_always(field, tag, days, ud, rv, count, chosen) ==
  IF ud[field] /= NULL
    THEN { IF r.ok
             THEN Ok(chosen \o Tag(r.rows, tag),
                     << Query(tag, rv \cup Ids(chosen), count - Len(chosen), TRUE) >>)
             ELSE Throw(r.message,
                     << Query(tag, rv \cup Ids(chosen), count - Len(chosen), FALSE) >>)
           : r \in Execute(TopRows(TierPool(field, ud, rv, Ids(chosen), days),
                                   count - Len(chosen), "regional")) }
  ELSE { Ok(chosen, << >>) }

\* a tier whose query leaves out "AND p._id NOT IN (<posts chosen so far>)"
RegionalTier_unexcluded(field, tag, days, ud, rv, count, chosen) ==
  IF ud[field] /= NULL /\ Len(chosen) < count
    THEN { IF r.ok
             THEN Ok(chosen \o Tag(r.rows, tag),
                     << Query(tag, rv, count - Len(chosen), TRUE) >>)
             ELSE Throw(r.message,
                     << Query(tag, rv, count - Len(chosen), FALSE) >>)
           : r \in Execute(TopRows(TierPool(field, ud, rv, {}, days),
                                   count - Len(chosen), "regional")) }
  ELSE { Ok(chosen, << >>) }

\* one geographic tier: queried when the user has the field and the count
\* is not filled; remaining = count - posts.length
RegionalTier(field, tag, days, ud, rv, count, chosen) ==
  IF ud[field] /= NULL /\ Len(chosen) < count
    THEN { IF r.ok
             THEN Ok(chosen \o Tag(r.rows, tag),
                     << Query(tag, rv \cup Ids(chosen), count - Len(chosen), TRUE) >>)
             ELSE Throw(r.message,
                     << Query(tag, rv \cup Ids(chosen), count - Len(chosen), FALSE) >>)
           : r \in Execute(TopRows(TierPool(field, ud, rv, Ids(chosen), days),
                                   count - Len(chosen), "regional")) }
  ELSE { Ok(chosen, << >>) }

\* city, then region, then country, then the random fill; the first error ends it
RegionalBody(v, ud, rv, count) ==
  LET city == RegionalTier("city", "regional-city", 3, ud, rv, count, << >>)
      region == UNION { IF c.ok
                          THEN After(c.log, RegionalTier("region", "regional-region", 5,
                                                         ud, rv, count, c.value))
                          ELSE { c } : c \in city }
      country == UNION { IF g.ok
                           THEN After(g.log, RegionalTier("country", "regional-country", 7,
                                                          ud, rv, count, g.value))
                           ELSE { g } : g \in region }
  IN UNION { IF n.ok THEN After(n.log, RegionalFill(v, rv, count, n.value))
             ELSE { n } : n \in country }

getRegionalPosts_index(ud, rv, count) ==
  IF count <= 0 THEN { Ok(<< >>, << >>) }
  ELSE RegionalBody("index", ud, rv, count)

\* catch (error) { return await getRandomPosts(db, userData, recentlyViewed, count) }
getRegionalPosts_part000(ud, rv, count) ==
  IF count <= 0 THEN { Ok(<< >>, << >>) }
  ELSE UNION { IF o.ok THEN { o }
               ELSE After(o.log, getRandomPosts_part000(rv, count))
               : o \in RegionalBody("part000", ud, rv, count) }

getRegionalPosts(v, ud, rv, count) ==
  IF v = "index" THEN getRegionalPosts_index(ud, rv, count)
  ELSE getRegionalPosts_part000(ud, rv, count)

\* ------------------------------------------- user data and relationships
\* `null`: what getUserDataAndRelationships returns for an unknown user
null == [username |-> NULL, city |-> NULL, region |-> NULL, country |-> NULL,
         friends |-> << >>, following |-> << >>]

\* SELECT CASE WHEN follower = ? THEN following ELSE follower END
\* FROM follows WHERE (follower = ? OR following = ?) AND relationship_status = 'accepted'
FriendRows(uid) ==
  LET es == EdgesToSeq({ e \in follows :
                           /\ (e.follower = uid \/ e.following = uid)
                           /\ e.relationship_status = "accepted" })
  IN [k \in 1 .. Len(es) |->
        IF es[k].follower = uid THEN es[k].following ELSE es[k].follower]

\* SELECT following FROM follows WHERE follower = ? AND relationship_status = 'none'
FollowingRows(uid) ==
  LET es == EdgesToSeq({ e \in follows :
                           e.follower = uid /\ e.relationship_status = "none" })
  IN [k \in 1 .. Len(es) |-> es[k].following]

\* three queries; an error of any of them is rethrown
getUserDataAndRelationships(uid) ==
  LET qu(ok) == Query("user", {}, 0, ok)
      qf(ok) == Query("friendsOf", {}, 0, ok)
      qg(ok) == Query("followingOf", {}, 0, ok)
  IN    { Throw(m, << qu(FALSE) >>) : m \in ErrorMessages }
   \cup (IF uid \notin Usernames
           THEN { Ok(null, << qu(TRUE) >>) }
           ELSE    { Throw(m, << qu(TRUE), qf(FALSE) >>) : m \in ErrorMessages }
              \cup { Throw(m, << qu(TRUE), qf(TRUE), qg(FALSE) >>) : m \in ErrorMessages }
              \cup { Ok([username |-> users[uid].username,
                         city |-> users[uid].city,
                         region |-> users[uid].region,
                         country |-> users[uid].country,
                         friends |-> FriendRows(uid),
                         following |-> FollowingRows(uid)],
                        << qu(TRUE), qf(TRUE), qg(TRUE) >>) })

\* ------------------------------------------------------- recently viewed
\* new Set(rows.map(row => row.post_id)), or new Set() when the query throws
getRecentlyViewedPosts ==
     { Ok(S, << Query("views", {}, 1000, TRUE) >>) : S \in ViewedSets }
  \cup { Ok({}, << Query("views", {}, 1000, FALSE) >>) }

\* -------------------------------------------------------------- utilities
\* Fisher-Yates, i and j 1-based: j = Math.floor(Math.random() * i) + 1 is 1
\* when Math.random() is 0 and i when it is just below 1
RECURSIVE shuffleArray(_, _, _)
shuffleArray(array, i, draw) ==
  IF i <= 1 THEN array
  ELSE LET j == IF draw = "0" THEN 1 ELSE i
       IN shuffleArray([array EXCEPT ![i] = array[j], ![j] = array[i]], i - 1, draw)

\* composition[type] = 1 in place of (composition[type] || 0) + 1
getActualComposition_unsummed(cands) ==
  [t \in { cands[k].feedType : k \in 1 .. Len(cands) } |-> 1]

\* counts keyed by feedType
getActualComposition(cands) ==
  [t \in { cands[k].feedType : k \in 1 .. Len(cands) } |->
     Cardinality({ k \in 1 .. Len(cands) : cands[k].feedType = t })]

defaultPfp == "defaultPfp"

\* the lightweight post objects; the profile picture is the author's
EnrichedWith(cands) ==
  [k \in 1 .. Len(cands) |->
     [_id |-> cands[k]._id,
      username |-> posts[cands[k]._id].username,
      profilePicture |-> posts[cands[k]._id].username,
      feedType |-> cands[k].feedType]]

\* part_000's catch: the same posts with the default picture
EnrichedDefault(cands) ==
  [k \in 1 .. Len(cands) |->
     [_id |-> cands[k]._id,
      username |-> posts[cands[k]._id].username,
      profilePicture |-> defaultPfp,
      feedType |-> cands[k].feedType]]

\* the texts JSON.parse accepts
ValidJSON == {"[]"}

\* likedBy: typeof p.likedBy === 'string' ? JSON.parse(p.likedBy) : ...
\* throws a SyntaxError for some post of the list
ParseThrows(cands) ==
  \E k \in 1 .. Len(cands) : posts[cands[k]._id].likedBy \notin ValidJSON

\* src/src/index.js: the query's error and the SyntaxError propagate
enrichPostsWithUserData_index(cands) ==
  IF Len(cands) = 0 THEN { Ok(<< >>, << >>) }
  ELSE    { IF ParseThrows(cands)
              THEN Throw("SyntaxError", << Query("profiles", {}, 0, TRUE) >>)
              ELSE Ok(EnrichedWith(cands), << Query("profiles", {}, 0, TRUE) >>) }
     \cup { Throw(m, << Query("profiles", {}, 0, FALSE) >>) : m \in ErrorMessages }

\* src/unnamed/part_000: catch (error) { return posts.map(p => ({ ...defaults })) }
enrichPostsWithUserData_part000(cands) ==
  IF Len(cands) = 0 THEN { Ok(<< >>, << >>) }
  ELSE { IF ParseThrows(cands)
           THEN Ok(EnrichedDefault(cands), << Query("profiles", {}, 0, TRUE) >>)
           ELSE Ok(EnrichedWith(cands), << Query("profiles", {}, 0, TRUE) >>),
         Ok(EnrichedDefault(cands), << Query("profiles", {}, 0, FALSE) >>) }

enrichPostsWithUserData(v, cands) ==
  IF v = "index" THEN enrichPostsWithUserData_index(cands)
  ELSE enrichPostsWithUserData_part000(cands)

\* -------------------------------------------------------------- responses
undefined == "undefined"

Response(status, message, error, details, ps, comp) ==
  [status |-> status, message |-> message, error |-> error, details |-> details,
   posts |-> ps, composition |-> comp]

NoResponse == Response(0, undefined, undefined, undefined, << >>, << >>)

\* status 404, { message: 'User not found' }
NotFoundResponse ==
  Response(404, "User not found", undefined, undefined, << >>, << >>)

\* status 500, { error: 'Failed to generate personalized feed' }; part_000
\* adds details: error.message
FailureResponse(v, m) ==
  Response(500, undefined, "Failed to generate personalized feed",
           IF v = "index" THEN undefined ELSE m, << >>, << >>)

\* status 200, { posts, hasMorePosts: true, feedType: 'personalized', composition }
SuccessResponse(enriched, cands) ==
  Response(200, undefined, undefined, undefined, enriched,
           getActualComposition(cands))

\* ------------------------------------------------------------------ Init
Init ==
  /\ variant \in Variants
  /\ posts \in PostsTables
  /\ \E r \in Requests : userId = r.userId /\ follows = r.follows
  /\ limit \in Limits
  /\ pc = "getUserData"
  /\ userData = null
  /\ recentlyViewed = {}
  /\ feed = << >>
  /\ calls = << >>
  /\ queries = << >>
  /\ thrown = {}
  /\ response = NoResponse

tables == << variant, posts, follows, userId, limit >>

\* a fetcher invocation: (db, userData, <excl>, <count>)
Call(f, excl, count) == [fetcher |-> f, excl |-> excl, count |-> count]

\* --------------------------------------------------- handlePersonalizedFeed
\* const userData = await getUserDataAndRelationships(db, userId);
\* if (!userData) return 404; an error lands in the handler's catch: 500
GetUserData ==
  /\ pc = "getUserData"
  /\ \E o \in getUserDataAndRelationships(userId) :
       /\ Faults(queries \o o.log) <= MaxFaults
       /\ queries' = queries \o o.log
       /\ IF ~ o.ok
            THEN /\ thrown' = thrown \cup {"getUserDataAndRelationships"}
                 /\ response' = FailureResponse(variant, o.message)
                 /\ pc' = "done"
                 /\ UNCHANGED userData
            ELSE IF o.value = null
              THEN /\ response' = NotFoundResponse
                   /\ pc' = "done"
                   /\ UNCHANGED << userData, thrown >>
              ELSE /\ userData' = o.value
                   /\ pc' = "getViewed"
                   /\ UNCHANGED << thrown, response >>
  /\ UNCHANGED << tables, recentlyViewed, feed, calls >>

\* const recentlyViewed = await getRecentlyViewedPosts(db, userId);
GetViewed ==
  /\ pc = "getViewed"
  /\ \E o \in getRecentlyViewedPosts :
       /\ Faults(queries \o o.log) <= MaxFaults
       /\ queries' = queries \o o.log
       /\ recentlyViewed' = o.value
  /\ pc' = "random"
  /\ UNCHANGED << tables, userData, feed, calls, thrown, response >>

\* --------------------------------------------------- generateFeedComposition
\* one slot of the try block: posts.push(...await <fetcher>(db, userData,
\* recentlyViewed, <count>)); an error jumps to the catch
Slot(here, fetcher, count, outcomes, next) ==
  /\ pc = here
  /\ calls' = Append(calls, Call(fetcher, recentlyViewed, count))
  /\ \E o \in outcomes :
       /\ Faults(queries \o o.log) <= MaxFaults
       /\ queries' = queries \o o.log
       /\ IF o.ok
            THEN /\ feed' = feed \o o.value
                 /\ pc' = next
                 /\ UNCHANGED thrown
            ELSE /\ pc' = "fallback"
                 /\ thrown' = thrown \cup {fetcher}
                 /\ UNCHANGED feed
  /\ UNCHANGED << tables, userData, recentlyViewed, response >>

\* 1. Get Random/Discovery posts (4 posts)
SlotRandom ==
  Slot("random", "getRandomPosts", composition.random,
       getRandomPosts(variant, recentlyViewed, composition.random), "following")

\* 2. Get Following posts (3 posts)
SlotFollowing ==
  Slot("following", "getFollowingPosts", composition.following,
       getFollowingPosts(variant, userData, recentlyViewed, composition.following),
       "friends")

\* 3. Get Friends posts (2 posts)
SlotFriends ==
  Slot("friends", "getFriendsPosts", composition.friends,
       getFriendsPosts(variant, userData, recentlyViewed, composition.friends),
       "regional")

\* 4. Get Regional posts (1 post)
SlotRegional ==
  Slot("regional", "getRegionalPosts", composition.regional,
       getRegionalPosts(variant, userData, recentlyViewed, composition.regional),
       "topup")

\* step 5 calling the discovery fetcher with the arguments of the catch:
\* the bare recentlyViewed and the whole limit
TopUp_whole ==
  /\ pc = "topup"
  /\ IF Len(feed) < limit
       THEN /\ calls' = Append(calls, Call("getRandomPosts", recentlyViewed, limit))
            /\ \E o \in getRandomPosts(variant, recentlyViewed, limit) :
                 /\ Faults(queries \o o.log) <= MaxFaults
                 /\ queries' = queries \o o.log
                 /\ IF o.ok
                      THEN /\ feed' = feed \o o.value
                           /\ pc' = "shuffle"
                           /\ UNCHANGED thrown
                      ELSE /\ pc' = "fallback"
                           /\ thrown' = thrown \cup {"getRandomPosts"}
                           /\ UNCHANGED feed
       ELSE /\ pc' = "shuffle"
            /\ UNCHANGED << feed, calls, queries, thrown >>
  /\ UNCHANGED << tables, userData, recentlyViewed, response >>

\* step 5 handing the discovery fetcher the bare recentlyViewed, as steps 1-4 do
TopUp_bare ==
  /\ pc = "topup"
  /\ IF Len(feed) < limit
       THEN /\ calls' = Append(calls, Call("getRandomPosts", recentlyViewed,
                                           limit - Len(feed)))
            /\ \E o \in getRandomPosts(variant, recentlyViewed, limit - Len(feed)) :
                 /\ Faults(queries \o o.log) <= MaxFaults
                 /\ queries' = queries \o o.log
                 /\ IF o.ok
                      THEN /\ feed' = feed \o o.value
                           /\ pc' = "shuffle"
                           /\ UNCHANGED thrown
                      ELSE /\ pc' = "fallback"
                           /\ thrown' = thrown \cup {"getRandomPosts"}
                           /\ UNCHANGED feed
       ELSE /\ pc' = "shuffle"
            /\ UNCHANGED << feed, calls, queries, thrown >>
  /\ UNCHANGED << tables, userData, recentlyViewed, response >>

\* 5. Fill remaining slots with random if needed
TopUp ==
  /\ pc = "topup"
  /\ IF Len(feed) < limit
       THEN /\ calls' = Append(calls, Call("getRandomPosts",
                                           recentlyViewed \cup Ids(feed),
                                           limit - Len(feed)))
            /\ \E o \in getRandomPosts(variant, recentlyViewed \cup Ids(feed),
                                        limit - Len(feed)) :
                 /\ Faults(queries \o o.log) <= MaxFaults
                 /\ queries' = queries \o o.log
                 /\ IF o.ok
                      THEN /\ feed' = feed \o o.value
                           /\ pc' = "shuffle"
                           /\ UNCHANGED thrown
                      ELSE /\ pc' = "fallback"
                           /\ thrown' = thrown \cup {"getRandomPosts"}
                           /\ UNCHANGED feed
       ELSE /\ pc' = "shuffle"
            /\ UNCHANGED << feed, calls, queries, thrown >>
  /\ UNCHANGED << tables, userData, recentlyViewed, response >>

\* step 6 without its .slice(0, limit)
Shuffle_unsliced ==
  /\ pc = "shuffle"
  /\ \E draw \in RandomValues :
       feed' = shuffleArray(feed, Len(feed), draw)
  /\ pc' = "enrich"
  /\ UNCHANGED << tables, userData, recentlyViewed, calls, queries,
                  thrown, response >>

\* 6. return shuffleArray(posts).slice(0, limit)
Shuffle ==
  /\ pc = "shuffle"
  /\ \E draw \in RandomValues :
       feed' = Slice(shuffleArray(feed, Len(feed), draw), limit)
  /\ pc' = "enrich"
  /\ UNCHANGED << tables, userData, recentlyViewed, calls, queries,
                  thrown, response >>

\* catch (error) { return await getRandomPosts(db, userData, recentlyViewed, limit) }
Fallback ==
  /\ pc = "fallback"
  /\ calls' = Append(calls, Call("getRandomPosts", recentlyViewed, limit))
  /\ \E o \in getRandomPosts(variant, recentlyViewed, limit) :
       /\ Faults(queries \o o.log) <= MaxFaults
       /\ queries' = queries \o o.log
       /\ IF o.ok
            THEN /\ feed' = o.value
                 /\ pc' = "enrich"
                 /\ UNCHANGED << thrown, response >>
            ELSE /\ thrown' = thrown \cup {"generateFeedComposition"}
                 /\ response' = FailureResponse(variant, o.message)
                 /\ pc' = "done"
                 /\ UNCHANGED feed
  /\ UNCHANGED << tables, userData, recentlyViewed >>

\* const enrichedPosts = await enrichPostsWithUserData(db, feedPosts, defaultPfp);
\* return new Response(JSON.stringify({ posts: enrichedPosts, hasMorePosts: true,
\*   feedType: 'personalized', composition: getActualComposition(feedPosts) }))
\* an error lands in the handler's catch: 500
EnrichAndRespond ==
  /\ pc = "enrich"
  /\ \E o \in enrichPostsWithUserData(variant, feed) :
       /\ Faults(queries \o o.log) <= MaxFaults
       /\ queries' = queries \o o.log
       /\ IF o.ok
            THEN /\ response' = SuccessResponse(o.value, feed)
                 /\ UNCHANGED thrown
            ELSE /\ thrown' = thrown \cup {"enrichPostsWithUserData"}
                 /\ response' = FailureResponse(variant, o.message)
  /\ pc' = "done"
  /\ UNCHANGED << tables, userData, recentlyViewed, feed, calls >>

Next ==
  \/ GetUserData
  \/ GetViewed
  \/ SlotRandom
  \/ SlotFollowing
  \/ SlotFriends
  \/ SlotRegional
  \/ TopUp
  \/ Shuffle
  \/ Fallback
  \/ EnrichAndRespond

Spec == Init /\ [][Next]_vars

\* ------------------------------------------------ getRegionalPosts alone
\* One call getRegionalPosts(db, userData, recentlyViewed, count) for any
\* count: the composer only ever asks for composition.regional. `limit`
\* holds the count argument and `feed` the list returned.
RegionalCounts == {1, 2, 3}

InitRegional ==
  /\ variant \in Variants
  /\ posts \in PostsTables
  /\ follows = {}
  /\ userId \in Usernames
  /\ limit \in RegionalCounts
  /\ pc = "getRegionalPosts"
  /\ userData = [username |-> users[userId].username,
                 city |-> users[userId].city,
                 region |-> users[userId].region,
                 country |-> users[userId].country,
                 friends |-> << >>,
                 following |-> << >>]
  /\ recentlyViewed \in ViewedSets
  /\ feed = << >>
  /\ calls = << >>
  /\ queries = << >>
  /\ thrown = {}
  /\ response = NoResponse

CallRegional ==
  /\ pc = "getRegionalPosts"
  /\ calls' = << Call("getRegionalPosts", recentlyViewed, limit) >>
  /\ \E o \in getRegionalPosts(variant, userData, recentlyViewed, limit) :
       /\ Faults(o.log) <= MaxFaults
       /\ queries' = o.log
       /\ IF o.ok
            THEN /\ feed' = o.value
                 /\ pc' = "returned"
                 /\ UNCHANGED thrown
            ELSE /\ thrown' = {"getRegionalPosts"}
                 /\ pc' = "threw"
                 /\ UNCHANGED feed
  /\ UNCHANGED << tables, userData, recentlyViewed, response >>

NextRegional == CallRegional

SpecRegional == InitRegional /\ [][NextRegional]_vars

\* =================================================================== claims
Fetchers == {"getRandomPosts", "getFollowingPosts", "getFriendsPosts",
             "getRegionalPosts"}

\* generateFeedComposition has returned `feed` to handlePersonalizedFeed
Returned == pc = "enrich"

\* a db.execute of the given query threw
QueryFailed(name) == \E k \in 1 .. Len(queries) : queries[k].q = name /\ ~ queries[k].ok

\* the posts eligible for at least one source for this user, the recently
\* viewed ones excluded
Eligible ==
  RandomPool(recentlyViewed)
    \cup AuthorPool(userData.following, recentlyViewed)
    \cup AuthorPool(userData.friends, recentlyViewed)
    \cup (IF userData.city /= NULL
            THEN TierPool("city", userData, recentlyViewed, {}, 3) ELSE {})
    \cup (IF userData.region /= NULL
            THEN TierPool("region", userData, recentlyViewed, {}, 5) ELSE {})
    \cup (IF userData.country /= NULL
            THEN TierPool("country", userData, recentlyViewed, {}, 7) ELSE {})

\* C1: the page generateFeedComposition returns holds no two candidates with
\* the same post id, on the normal path and on the discovery-only fallback.
C1_NoDuplicatePostIds ==
  Returned =>
    \A a, b \in 1 .. Len(feed) : a /= b => feed[a]._id /= feed[b]._id

\* C2: when no repository query failed, the length of the returned page is
\* min(page_size, number of distinct eligible posts that are not in the
\* caller's exclusion set).
C2_PageLengthIsMinOfLimitAndEligible ==
  (Returned /\ Faults(queries) = 0) =>
    Len(feed) = Min(limit, Cardinality(Eligible))

\* C3: no candidate collected, returned or sent in the response has a post id
\* of the recently-viewed exclusion set.
C3_ExclusionRespected ==
  /\ Ids(feed) \cap recentlyViewed = {}
  /\ Ids(response.posts) \cap recentlyViewed = {}

\* C3 witness: a success response with posts, for a user who recently viewed
\* a post that the discovery pool would otherwise offer.
C3_Witness ==
  /\ pc = "done"
  /\ response.status = 200
  /\ Len(response.posts) > 0
  /\ recentlyViewed \cap RandomPool({}) /= {}

\* C4: every slot fetcher after the first is invoked with an exclusion set
\* that contains the caller's exclusion set and the ids of every candidate
\* the earlier fetchers of the request appended.
C4_FetchersGetRunningExclusion ==
  [][ (pc \in {"following", "friends", "regional"} /\ calls' /= calls)
        => (recentlyViewed \cup Ids(feed)) \subseteq calls'[Len(calls')].excl ]_vars

\* C5: within one composition every post id carries exactly one source-kind
\* tag: a post supplied by one step never appears again under another tag.
C5_OneTagPerPost ==
  Returned =>
    \A a, b \in 1 .. Len(feed) :
      feed[a]._id = feed[b]._id => feed[a].feedType = feed[b].feedType

\* C6: no source fetcher ever throws an error to its caller.
C6_FetchersNeverThrow == thrown \cap Fetchers = {}

\* C7: when a step of the composition threw, the composer has returned one
\* discovery fetch for the full page_size with the caller's exclusion set,
\* the page holds only discovery-tagged candidates and the request does not
\* end in an error response.
C7_CompositionFailureFallsBack ==
  (pc = "done" /\ thrown \cap Fetchers /= {}) =>
    /\ response.status = 200
    /\ calls[Len(calls)] = Call("getRandomPosts", recentlyViewed, limit)
    /\ \A k \in 1 .. Len(feed) : feed[k].feedType = "random"

\* C8: the failure result of a failed user lookup or relationship resolution
\* is specific to it: the same result is returned neither for an unknown
\* user nor for any other error in the request.
C8_UpstreamFailureIsDistinct ==
  (pc = "done" /\ response.status = 500
     /\ response.error = "Failed to generate personalized feed")
    => "getUserDataAndRelationships" \in thrown

\* C9: when the view-history query fails, the request still ends with a
\* success response whose page was composed with an empty exclusion set.
C9_ViewFailureStillSucceeds ==
  (pc = "done" /\ QueryFailed("views")) =>
    (response.status = 200 /\ recentlyViewed = {})

\* C10: a request of an existing user whose relationships were resolved ends
\* with a success response, whichever later repository query fails.
C10_SuccessAfterRelationships ==
  (pc = "done" /\ userData /= null) => response.status = 200

\* the candidates the step being taken appends to `posts`
Appended == SubSeq(feed', Len(feed) + 1, Len(feed'))

\* the step being taken is the given slot, and its fetcher returned
SlotReturns(here, next) == pc = here /\ pc' = next

NoRelationshipsNoLocation ==
  /\ userData /= null
  /\ Len(userData.friends) = 0
  /\ Len(userData.following) = 0
  /\ userData.city = NULL /\ userData.region = NULL /\ userData.country = NULL

\* C12: for a user with no friends, no following and no location and
\* page_size 10, every candidate of the returned page is tagged 'random', the
\* composition summary has 'random' as its only key, and the page has
\* min(10, size of the discovery pool) candidates.
C12_ScenarioBAllDiscovery ==
  (pc = "done" /\ response.status = 200 /\ NoRelationshipsNoLocation
     /\ limit = 10 /\ Faults(queries) = 0)
    => /\ \A k \in 1 .. Len(response.posts) : response.posts[k].feedType = "random"
       /\ DOMAIN response.composition \subseteq {"random"}
       /\ Len(response.posts) = Min(10, Cardinality(RandomPool(recentlyViewed)))

\* C13: the page generateFeedComposition returns, and the page of the
\* response, never has more than page_size candidates, on the normal path and
\* on the discovery-only fallback path.
C13_PageAtMostPageSize ==
  /\ Returned => Len(feed) <= limit
  /\ Len(response.posts) <= limit

\* C13 witness: a page size below the slot total: the normal path collected
\* more than page_size candidates and returned a page of page_size.
C13_Witness ==
  /\ Returned
  /\ thrown = {}
  /\ limit < composition.random
  /\ Len(calls) = 4
  /\ queries[Len(queries)].ok /\ queries[Len(queries) - 1].ok
  /\ Cardinality(RandomPool(recentlyViewed)) > limit
  /\ Len(feed) = limit

\* the other endpoint of every accepted edge touching the user
AcceptedPeers(uid) ==
  { IF e.follower = uid THEN e.following ELSE e.follower :
      e \in { d \in follows : /\ (d.follower = uid \/ d.following = uid)
                              /\ d.relationship_status = "accepted" } }

\* C14: the friends list getUserDataAndRelationships returns holds the other
\* endpoint of every accepted edge touching the user, each friend exactly
\* once, also when accepted edges exist in both directions between two users.
C14_FriendsDeduplicated ==
  userData /= null =>
    /\ Range(userData.friends) = AcceptedPeers(userId)
    /\ \A a, b \in 1 .. Len(userData.friends) :
         a /= b => userData.friends[a] /= userData.friends[b]

\* C15: a failure response neither contains the storage layer's error
\* message nor depends on it: the response is the one the same failure would
\* have produced with any other error message.
C15_NoErrorMessageInResponse ==
  (pc = "done" /\ response.status = 500) =>
    /\ response.details \notin ErrorMessages
    /\ \A m \in ErrorMessages : response = FailureResponse(variant, m)

\* C16: after the four slots the discovery fetcher is invoked once more
\* exactly when fewer than page_size candidates were collected; its count is
\* the shortfall, its exclusion set holds the caller's exclusion set and every
\* id collected so far, its query carries that exclusion set and count, and
\* the candidates it adds are disjoint from those already collected.
C16_TopUpIffShortfall ==
  [][ pc = "topup" =>
        /\ (calls' /= calls) <=> (Len(feed) < limit)
        /\ (calls' /= calls) =>
              /\ Len(calls') = Len(calls) + 1
              /\ calls'[Len(calls')].fetcher = "getRandomPosts"
              /\ calls'[Len(calls')].count = limit - Len(feed)
              /\ (recentlyViewed \cup Ids(feed)) \subseteq calls'[Len(calls')].excl
              /\ queries' = Append(queries, queries'[Len(queries')])
              /\ queries'[Len(queries')].q = "random"
              /\ queries'[Len(queries')].excl = calls'[Len(calls')].excl
              /\ queries'[Len(queries')].limit = limit - Len(feed)
              /\ Ids(Appended) \cap (recentlyViewed \cup Ids(feed)) = {}
    ]_vars

\* C16 witness: the top-up ran after four slots that had collected
\* candidates, and added a candidate none of them had collected.
C16_Witness ==
  /\ pc = "shuffle"
  /\ Len(calls) = 5
  /\ calls[5].fetcher = "getRandomPosts"
  /\ calls[5].excl /= recentlyViewed
  /\ calls[5].count < limit
  /\ queries[Len(queries)] = Query("random", calls[5].excl, calls[5].count, TRUE)
  /\ Len(feed) > 0
  /\ feed[Len(feed)]._id \notin calls[5].excl

\* the four slot budgets together
SlotTotal ==
  composition.random + composition.following + composition.friends
    + composition.regional

\* C17: for every page_size the list collected before truncation has at most
\* page_size candidates, so the truncation of step 6 removes nothing (every
\* fetcher of the model returns at most the count it was asked for).
C17_TruncationRemovesNothing ==
  [][ pc = "shuffle" => (Len(feed) <= limit /\ Len(feed') = Len(feed)) ]_vars

\* C17 amended: for every page_size of at least the slot total of 10 the list
\* collected before truncation has at most page_size candidates and the
\* truncation removes nothing.
C17_TruncationRemovesNothingFromSlotTotal ==
  [][ (pc = "shuffle" /\ limit >= SlotTotal)
        => (Len(feed) <= limit /\ Len(feed') = Len(feed)) ]_vars

\* C17 witness: with a page size of at least 10, the four slots and the
\* top-up collected candidates from more than the first slot and the
\* shuffled list was truncated.
C17_Witness ==
  /\ Returned
  /\ thrown = {}
  /\ limit >= SlotTotal
  /\ Len(calls) = 5
  /\ Len(feed) > composition.random

GeoTags == << "regional-city", "regional-region", "regional-country" >>

\* the ids of the returned candidates that carry one of the first n geographic tags
ChosenByTiers(n) ==
  { feed[k]._id : k \in { j \in 1 .. Len(feed) :
                            \E t \in 1 .. n : feed[j].feedType = GeoTags[t] } }

\* the db.execute calls of the given query
QueriesOf(name) == { k \in 1 .. Len(queries) : queries[k].q = name }

\* C18: within one getRegionalPosts call that returned its tiers' list, the
\* region query excludes the caller's exclusion set and the ids the city
\* tier chose, the country query those of the city and region tiers, the
\* discovery fill those of all three tiers; the returned list has pairwise
\* distinct post ids.
C18_TiersExcludeEarlierTiers ==
  pc = "returned" =>
    /\ \A k \in QueriesOf("regional-city") : recentlyViewed \subseteq queries[k].excl
    /\ \A k \in QueriesOf("regional-region") :
         (recentlyViewed \cup ChosenByTiers(1)) \subseteq queries[k].excl
    /\ \A k \in QueriesOf("regional-country") :
         (recentlyViewed \cup ChosenByTiers(2)) \subseteq queries[k].excl
    /\ \A k \in QueriesOf("random") :
         (recentlyViewed \cup ChosenByTiers(3)) \subseteq queries[k].excl
    /\ \A a, b \in 1 .. Len(feed) : a /= b => feed[a]._id /= feed[b]._id

\* C18 witness: a call for three posts in which the city, the region and the
\* country tier each chose a post.
C18_Witness ==
  /\ pc = "returned"
  /\ limit = 3
  /\ Faults(queries) = 0
  /\ \A t \in 1 .. 3 : \E k \in 1 .. Len(feed) : feed[k].feedType = GeoTags[t]

\* the number of candidates already chosen when db.execute call k was issued:
\* the ids its exclusion set adds to the caller's
ChosenBefore(k) == Cardinality(queries[k].excl \ recentlyViewed)

\* the number of candidates of the returned list that the tiers chose: all of
\* it unless the discovery fetcher was called, which then supplied the rest
TierCandidates ==
  IF QueriesOf("random") = {} THEN Len(feed)
  ELSE ChosenBefore(CHOOSE k \in QueriesOf("random") : TRUE)

\* C19: within one getRegionalPosts call the region tier is queried only when
\* the city tier left the count unfilled, the country tier only when city and
\* region left it unfilled, each for the remaining count, and the discovery
\* fetcher only for the shortfall left by the tiers it keeps; a returned
\* candidate that came from discovery carries none of the three geographic
\* tags.
C19_TiersInSequenceFillTaggedApart ==
  /\ \A k \in QueriesOf("regional-city") : queries[k].limit = limit
  /\ \A k \in QueriesOf("regional-region") \cup QueriesOf("regional-country")
                \cup QueriesOf("random") :
        /\ ChosenBefore(k) < limit
        /\ queries[k].limit = limit - ChosenBefore(k)
  /\ (pc = "returned" /\ Faults(queries) = 0) =>
        /\ \A k \in QueriesOf("regional-region") :
              queries[k].excl = recentlyViewed \cup ChosenByTiers(1)
        /\ \A k \in QueriesOf("regional-country") :
              queries[k].excl = recentlyViewed \cup ChosenByTiers(2)
        /\ \A k \in QueriesOf("random") :
              queries[k].excl = recentlyViewed \cup ChosenByTiers(3)
  /\ pc = "returned" =>
        \A k \in 1 .. Len(feed) :
          k > TierCandidates => feed[k].feedType \notin Range(GeoTags)

\* C19 witness: of a call for two posts, the city tier chose one, the region
\* tier the other, and the country tier of a user with a country was not
\* queried.
C19_Witness ==
  /\ pc = "returned"
  /\ limit = 2
  /\ Faults(queries) = 0
  /\ QueriesOf("regional-city") /= {}
  /\ QueriesOf("regional-region") /= {}
  /\ \A k \in QueriesOf("regional-region") : ChosenBefore(k) = 1
  /\ userData.country /= NULL
  /\ QueriesOf("regional-country") = {}
  /\ Len(feed) = 2

\* how often the list holds the candidate
Count(list, c) == Cardinality({ k \in 1 .. Len(list) : list[k] = c })

RECURSIVE SumOver(_, _)
SumOver(f, keys) ==
  IF keys = {} THEN 0
  ELSE LET t == CHOOSE x \in keys : TRUE
       IN f[t] + SumOver(f, keys \ {t})

\* the summary of a success response counts each post of its page once
SummaryCountsPage ==
  (pc = "done" /\ response.status = 200) =>
    /\ Len(response.posts) = Len(feed)
    /\ \A k \in 1 .. Len(feed) :
         /\ response.posts[k]._id = feed[k]._id
         /\ response.posts[k].feedType = feed[k].feedType
    /\ DOMAIN response.composition
         = { response.posts[k].feedType : k \in 1 .. Len(response.posts) }
    /\ \A t \in DOMAIN response.composition :
         response.composition[t]
           = Cardinality({ k \in 1 .. Len(response.posts) :
                             response.posts[k].feedType = t })
    /\ SumOver(response.composition, DOMAIN response.composition)
         = Len(response.posts)

\* C20: the composition summary of a success response counts every candidate
\* of its page exactly once: its keys are the tags present in the page, each
\* count is the number of posts with that tag and the counts sum to the number
\* of posts; the shuffle step returns a truncated permutation of the collected
\* candidates, and enrichment keeps every candidate's id, tag and position.
C20_SummaryCountsEveryCandidateOnce ==
  [][ /\ pc = "shuffle" =>
            /\ Len(feed') = Min(Len(feed), limit)
            /\ \A c \in Range(feed) \cup Range(feed') :
                 /\ Count(feed', c) <= Count(feed, c)
                 /\ Len(feed) <= limit => Count(feed', c) = Count(feed, c)
      /\ SummaryCountsPage'
    ]_vars

\* C20 witness: a success response on the normal path whose page holds two
\* source kinds, one of them more than once.
C20_Witness ==
  /\ pc = "done"
  /\ response.status = 200
  /\ thrown = {}
  /\ Cardinality(DOMAIN response.composition) >= 2
  /\ \E t \in DOMAIN response.composition : response.composition[t] >= 2

\* the outcomes among those given in which no db.execute threw
FailureFree(outcomes) == { o \in outcomes : Faults(o.log) = 0 }

\* what the step at the current position can do when variant v runs it
StepOutcomes(v) ==
  CASE pc = "getUserData" -> getUserDataAndRelationships(userId)
    [] pc = "getViewed" -> getRecentlyViewedPosts
    [] pc = "random" -> getRandomPosts(v, recentlyViewed, composition.random)
    [] pc = "following" ->
         getFollowingPosts(v, userData, recentlyViewed, composition.following)
    [] pc = "friends" ->
         getFriendsPosts(v, userData, recentlyViewed, composition.friends)
    [] pc = "regional" ->
         getRegionalPosts(v, userData, recentlyViewed, composition.regional)
    [] pc = "topup" /\ Len(feed) < limit ->
         getRandomPosts(v, recentlyViewed \cup Ids(feed), limit - Len(feed))
    [] pc = "fallback" -> getRandomPosts(v, recentlyViewed, limit)
    [] pc = "enrich" -> enrichPostsWithUserData(v, feed)
    [] OTHER -> {}

\* what can be observed of that step on a run without a failing query: the
\* queries it issues, whether it returns or throws, and the value it returns
Observed(v) ==
  { [queries |-> o.log, returns |-> o.ok, value |-> o.value] :
      o \in FailureFree(StepOutcomes(v)) }

\* C21: as long as no repository query has raised an error, the next step
\* of the request issues the same queries and returns the same value in
\* src/src/index.js and in src/unnamed/part_000 for the same repository
\* answers; so both variants issue the same query sequence and return the
\* same response on every run without a failing query.
C21_VariantsAgreeWithoutQueryFailure ==
  Faults(queries) = 0 => Observed("index") = Observed("part000")

====
